---- MODULE Spec2Model ----
(***************************************************************************)
(* Model of colour_datasets/loaders/labsphere2019.py: the dataset loader   *)
(* DatasetLoader_Labsphere2019 (load) and its singleton factory            *)
(* build_Labsphere2019, run by NThreads Python threads that interleave at  *)
(* the granularity of the interpreter's loads and stores of the shared     *)
(* names (the module global and the loader's _content attribute).          *)
(*                                                                         *)
(* AbstractDatasetLoader (the base class: __init__, sync, the content      *)
(* property) is code of the repository that is not among the sources; it   *)
(* is modelled from the specification's sections 3 and 4.1: a new loader   *)
(* has no content, and sync() leaves a verified repository or fails.       *)
(*                                                                         *)
(* utilities/unicode_to_ascii.py is a script of its own: unicode_to_ascii   *)
(* walks a directory tree and rewrites its source files.  SpecAscii is a   *)
(* call of it on a tree of at most MaxFiles files.                         *)
(*                                                                         *)
(* The callers make at most MaxCalls calls.  Spec lets them call           *)
(* concurrently, SpecSerial has them serialize their calls, as section 5   *)
(* of the specification asks of the callers of load().                     *)
(***************************************************************************)
EXTENDS Integers, Sequences, FiniteSets, TLC

\* Number of caller threads.
NThreads == 2

Threads == 1..NThreads

\* Number of calls (of build_Labsphere2019 and of load) the callers make.
MaxCalls == 3

\* The value of an unset Optional instance reference (Python's None).
NoInstance == 0

\* An absent Optional value is the empty sequence, a present one <<value>>.
None == <<>>
Some(x) == <<x>>

(***************************************************************************)
(* The dataset file "dataset/SRS-99-020.txt" of each archive revision.     *)
(* A file is a sequence of rows, a row a sequence of cells, a cell either  *)
(* a number or text.  Values are scaled by 100 (0.98 is 98).               *)
(***************************************************************************)
Num(n) == [num |-> TRUE, val |-> n]
Txt == [num |-> FALSE, val |-> 0]

\* The revisions of the archive the remote publishes.  The record's
\* integrity metadata is opaque to the loader: every published revision
\* passes verification.  "v1" holds the reference rows (0.98, 400),
\* (0.99, 500), (1.00, 600); "v2" is a later revision with other rows, which
\* are not in the order of their wavelengths.
Versions == {"v1", "v2"}

\* A repository tree whose bytes fail verification (damaged on disk); its
\* dataset file does not parse.
Corrupt == "corrupt"

\* No repository directory.
Absent == "absent"

FileOf(v) ==
    CASE v = "v1" -> << <<Txt>>, <<Txt>>,
                        <<Num(98), Num(400)>>,
                        <<Num(99), Num(500)>>,
                        <<Num(100), Num(600)>> >>
      [] v = "v2" -> << <<Txt>>, <<Txt>>,
                        <<Num(99), Num(500)>>,
                        <<Num(97), Num(400)>> >>
      [] OTHER -> << <<Txt>> >>

\* The name of the single distribution of the dataset.
SDName == "Labsphere SRS-99-020"

\* Rows of a file after skipping the first k (np.loadtxt's skiprows).
SkipRows(f, k) == IF Len(f) <= k THEN <<>> ELSE SubSeq(f, k + 1, Len(f))

\* np.loadtxt accepts the rows when every cell is a number and the rows
\* have the same number of columns.
LoadTxtOk(rows) ==
    /\ \A i \in 1..Len(rows) : \A j \in 1..Len(rows[i]) : rows[i][j].num
    /\ \A i \in 1..Len(rows) : Len(rows[i]) = Len(rows[1])

\* tsplit: the array of rows turned into the sequence of its columns.
Tsplit(rows) ==
    [c \in 1..Len(rows[1]) |-> [i \in 1..Len(rows) |-> rows[i][c].val]]

\* A distribution built without its name.
SpectralDistributionUnnamed(data, domain, name) ==
    [name |-> "", domain |-> domain, range |-> data]

\* SpectralDistribution(data, domain, name=...).
SpectralDistribution(data, domain, name) ==
    [name |-> name, domain |-> domain, range |-> data]

\* Whether reading and converting the file of repository state r succeeds.
ParseOk(r) ==
    /\ r \in Versions \cup {Corrupt}
    /\ LET rows == SkipRows(FileOf(r), 2)
       IN  /\ Len(rows) >= 2
           /\ LoadTxtOk(rows)
           /\ Len(rows[1]) >= 2

\* A load() that passes the columns to SpectralDistribution in file order.
ParseContentSwapped(r) ==
    LET values == Tsplit(SkipRows(FileOf(r), 2))
    IN  [n \in {SDName} |->
            SpectralDistribution(values[1], values[2], SDName)]

\* The mapping built by load() from the file of repository state r:
\* values[0] is the first column, values[1] the second, and the
\* distribution is SpectralDistribution(values[1], values[0]).
ParseContent(r) ==
    LET values == Tsplit(SkipRows(FileOf(r), 2))
    IN  [n \in {SDName} |->
            SpectralDistribution(values[2], values[1], SDName)]

VARIABLES
    serial,     \* whether the callers serialize their calls (fixed at start)
    slot,       \* _DATASET_LOADER_LABSPHERE2019: NoInstance or an instance
    content,    \* content[i]: the _content attribute of instance i
    handed,     \* instances some build call has returned to its caller
    remote,     \* the archive revision the remote serves
    repo,       \* state of record.repository on local storage
    calls,      \* the number of calls the callers have made
    changed,    \* whether the archive or the local files changed since the
                \* dataset file was last read successfully
    pc,         \* pc[t]: where thread t is in its call
    op,         \* op[t]: the call t is in or was last in: build, load, none
    flag,       \* flag[t]: the load argument of t's build call
    tmp,        \* tmp[t]: the instance t constructed, not yet stored
    self,       \* self[t]: the instance t's load() runs on
    synced,     \* synced[t]: the repository state t's sync() left, "" if none
    new,        \* new[t]: the mapping t's load() built, if any
    ret,        \* ret[t]: the instance t's build call returned
    out,        \* out[t]: the mapping t's load() call returned
    exc,        \* exc[t]: the error t's call raised, "" if none
    before,     \* before[t]: content of self[t] when t's load() began
    trace,      \* trace[t]: the events of t's current or last call
    seen,       \* <<c>>: the last sample c a reader took of the content
                \* of a loader during the load() running on it; <<>>: none
    tree,       \* the files under root_directory: path -> text
    orig,       \* the files as they were when unicode_to_ascii was called
    todo,       \* the files os.walk has yet to yield
    upc,        \* where the call of unicode_to_ascii is
    cur,        \* the path of the file being rewritten
    buf         \* the text read from that file

vars == <<serial, calls, slot, content, handed, remote, repo, changed, pc,
          op, flag, tmp, self, synced, new, ret, out, exc, before, trace,
          seen, tree, orig, todo, upc, cur, buf>>

\* The state of a call of unicode_to_ascii.
ascii == <<tree, orig, todo, upc, cur, buf>>

\* The module global, the instances and the references handed out.
heap == <<slot, content, handed>>

\* The remote archive and the local storage.
world == <<remote, repo, changed>>

\* The locals and the results of the threads' calls.
locals == <<op, flag, tmp, self, synced, new, ret, out, exc, before, trace>>

Instances == 1..Len(content)

\* The steps of load().
LoadPcs == {"l_sync", "l_parse", "l_assign", "l_return", "l_raise"}

InLoad(t) == pc[t] \in LoadPcs

Log(t, e) == [trace EXCEPT ![t] = Append(@, e)]

Has(t, e) == \E k \in 1..Len(trace[t]) : trace[t][k] = e

\* Where event e first is in the trace of thread t (0: nowhere).
Pos(t, e) ==
    IF Has(t, e)
    THEN CHOOSE k \in 1..Len(trace[t]) :
            /\ trace[t][k] = e
            /\ \A j \in 1..(k - 1) : trace[t][j] # e
    ELSE 0

(***************************************************************************)
(* The directory tree unicode_to_ascii walks.  A file name and a text are  *)
(* sequences of characters; a character that is not ASCII goes by a name.  *)
(***************************************************************************)

\* Number of files in the tree.
MaxFiles == 2

DotTex == <<".", "t", "e", "x">>
DotPy == <<".", "p", "y">>
DotBib == <<".", "b", "i", "b">>
DotRst == <<".", "r", "s", "t">>
DotTxt == <<".", "t", "x", "t">>

\* "unicode_to_ascii.py"
ScriptName ==
    <<"u", "n", "i", "c", "o", "d", "e", "_", "t", "o", "_",
      "a", "s", "c", "i", "i">> \o DotPy

\* The file names of the trees: one of each extension, the script's own
\* name, and "copy", which ends in "py" but in no extension.
FileNames ==
    {<<"m">> \o DotPy, <<"r">> \o DotBib, <<"i">> \o DotRst,
     <<"p">> \o DotTex, <<"n">> \o DotTxt, <<"c", "o", "p", "y">>,
     ScriptName}

\* The directories of the trees: root_directory and a directory in it.
Dirs == {<<>>, <<"sub">>}

\* os.path.join(root, filename), for the files os.walk can yield.
Paths == [dir : Dirs, name : FileNames]

NoPath == [dir |-> <<>>, name |-> <<>>]

\* A tree without files.
NoFiles == [f \in {} |-> <<>>]

\* Texts of the files: ASCII only, with characters of SUBSTITUTIONS, with
\* a precomposed character (e with acute accent), and bytes that are not
\* UTF-8.
Texts ==
    {<<"a", "-">>, <<"EN DASH", "a">>, <<"LEFT DOUBLE QUOTE", "PRIME">>,
     <<"E ACUTE">>, <<"NOT UTF-8">>}

\* str.endswith
EndsWith(name, suffix) ==
    /\ Len(name) >= Len(suffix)
    /\ SubSeq(name, Len(name) - Len(suffix) + 1, Len(name)) = suffix

\* SUBSTITUTIONS, applied to one character.
Substitute(c) ==
    CASE c = "EN DASH" -> "-"
      [] c \in {"LEFT DOUBLE QUOTE", "RIGHT DOUBLE QUOTE"} -> "DOUBLE QUOTE"
      [] c \in {"LEFT SINGLE QUOTE", "RIGHT SINGLE QUOTE", "PRIME"} -> "'"
      [] OTHER -> c

\* unicodedata.normalize("NFD", .) of one character: its canonical
\* decomposition.
Decompose(c) ==
    IF c = "E ACUTE" THEN <<"e", "COMBINING ACUTE">> ELSE <<c>>

\* The text written back for the text read: every key of SUBSTITUTIONS
\* replaced, then the NFD normal form.
RECURSIVE Convert(_)
Convert(text) ==
    IF text = <<>> THEN <<>>
    ELSE Decompose(Substitute(Head(text))) \o Convert(Tail(text))

\* The filter of the walk: the names unicode_to_ascii goes on to rewrite.
Rewritten(name) ==
    /\ ~(/\ ~EndsWith(name, DotTex)
         /\ ~EndsWith(name, DotPy)
         /\ ~EndsWith(name, DotBib)
         /\ ~EndsWith(name, DotRst))
    /\ name # ScriptName

\* codecs.open(..., encoding="utf8").read() succeeds on the text.
Decodes(text) == \A k \in 1..Len(text) : text[k] # "NOT UTF-8"

\* The trees of at most MaxFiles files.
Trees ==
    UNION {[fs -> Texts] :
             fs \in {x \in SUBSET Paths : Cardinality(x) <= MaxFiles}}

\* The state once the module is imported, the callers not yet started.
Start ==
    /\ calls = 0
    /\ slot = NoInstance
    /\ content = <<>>
    /\ handed = {}
    /\ remote = "v1"
    /\ repo = Absent
    /\ changed = FALSE
    /\ pc = [t \in Threads |-> "idle"]
    /\ op = [t \in Threads |-> "none"]
    /\ flag = [t \in Threads |-> FALSE]
    /\ tmp = [t \in Threads |-> NoInstance]
    /\ self = [t \in Threads |-> NoInstance]
    /\ synced = [t \in Threads |-> ""]
    /\ new = [t \in Threads |-> None]
    /\ ret = [t \in Threads |-> NoInstance]
    /\ out = [t \in Threads |-> None]
    /\ exc = [t \in Threads |-> ""]
    /\ before = [t \in Threads |-> None]
    /\ trace = [t \in Threads |-> <<>>]
    /\ seen = <<>>

\* unicode_to_ascii is not called: no tree is walked.
AsciiIdle ==
    /\ tree = NoFiles
    /\ orig = NoFiles
    /\ todo = {}
    /\ upc = "idle"
    /\ cur = NoPath
    /\ buf = <<>>

\* Callers that call concurrently.
Init == serial = FALSE /\ Start /\ AsciiIdle

\* Callers that serialize their calls.
InitSerial == serial = TRUE /\ Start /\ AsciiIdle

\* Callers of either kind.
InitAny == serial \in BOOLEAN /\ Start /\ AsciiIdle

\* No other thread is inside a call.
Alone(t) == \A u \in Threads \ {t} : pc[u] = "idle"

(***************************************************************************)
(* The environment: the remote archive and the local storage.              *)
(***************************************************************************)

\* The remote publishes another revision of the archive.
ArchiveChanges ==
    /\ \E v \in Versions \ {remote} : remote' = v
    /\ changed' = TRUE
    /\ UNCHANGED <<ascii, serial, calls, heap, repo, pc, locals, seen>>

\* The repository directory is damaged or removed on local storage.
LocalFilesChange ==
    /\ \E r \in {Absent, Corrupt} \ {repo} : repo' = r
    /\ changed' = TRUE
    /\ UNCHANGED <<ascii, serial, calls, heap, remote, pc, locals, seen>>

\* Synchronizer.sync(record) on repository state r with the remote serving
\* rem: the outcomes it can end with.  A present, verified repository is
\* left as it is and nothing is transferred ("none").  An absent or corrupt
\* one is fetched anew: the bytes fetched match the record's checksum
\* ("intact") and the verified revision is left in place, or they do not
\* match it, the retries used up ("mismatch"), or the transfer or the local
\* storage fails ("error"), and the call fails leaving no repository.
SyncOutcomes(r, rem) ==
    IF r \in Versions
    THEN {[ok |-> TRUE, repo |-> r, fetch |-> "none"]}
    ELSE {[ok |-> TRUE, repo |-> rem, fetch |-> "intact"],
          [ok |-> FALSE, repo |-> Absent, fetch |-> "mismatch"],
          [ok |-> FALSE, repo |-> Absent, fetch |-> "error"]}

\* The events a sync() with outcome o adds to the trace of its call.
SyncEvents(o) ==
    (IF o.fetch = "none" THEN <<>> ELSE << "fetch_" \o o.fetch >>)
        \o << IF o.ok THEN "sync_ok" ELSE "sync_fail" >>

(***************************************************************************)
(* A caller begins a call; a call ends and its frame's locals are gone.    *)
(***************************************************************************)

Begin(t, o, f, i) ==
    /\ op' = [op EXCEPT ![t] = o]
    /\ flag' = [flag EXCEPT ![t] = f]
    /\ self' = [self EXCEPT ![t] = i]
    /\ ret' = [ret EXCEPT ![t] = NoInstance]
    /\ out' = [out EXCEPT ![t] = None]
    /\ exc' = [exc EXCEPT ![t] = ""]
    /\ before' = [before EXCEPT ![t] =
                     IF i = NoInstance THEN None ELSE content[i]]
    /\ seen' = <<>>
    /\ calls < MaxCalls
    /\ calls' = calls + 1
    /\ UNCHANGED <<tmp, synced, new, trace>>

\* The call of thread t ends: what remains is what it returned or raised.
End(t) ==
    /\ pc' = [pc EXCEPT ![t] = "idle"]
    /\ flag' = [flag EXCEPT ![t] = FALSE]
    /\ tmp' = [tmp EXCEPT ![t] = NoInstance]
    /\ self' = [self EXCEPT ![t] = NoInstance]
    /\ synced' = [synced EXCEPT ![t] = ""]
    /\ new' = [new EXCEPT ![t] = None]
    /\ before' = [before EXCEPT ![t] = None]
    /\ trace' = [trace EXCEPT ![t] = <<>>]

\* The locals a step of load() or build that ends no call leaves alone.
frame == <<flag, tmp, self, synced, new, before, trace>>

\* build_Labsphere2019(load=f) is called.
CallBuild(t, f) ==
    /\ pc[t] = "idle"
    /\ serial => Alone(t)
    /\ pc' = [pc EXCEPT ![t] = "b_check"]
    /\ Begin(t, "build", f, NoInstance)
    /\ UNCHANGED <<ascii, serial, heap, world>>

\* load() is called on an instance a build call has handed out.
CallLoad(t, i) ==
    /\ pc[t] = "idle"
    /\ serial => Alone(t)
    /\ i \in handed
    /\ pc' = [pc EXCEPT ![t] = "l_sync"]
    /\ Begin(t, "load", FALSE, i)
    /\ UNCHANGED <<ascii, serial, heap, world>>

\* A reader samples the content attribute of an instance while a load()
\* call runs on it.
Read(i) ==
    /\ \E t \in Threads : InLoad(t) /\ self[t] = i
    /\ seen' = <<content[i]>>
    /\ UNCHANGED <<ascii, serial, calls, heap, world, pc, locals>>

(***************************************************************************)
(* build_Labsphere2019(load).                                              *)
(***************************************************************************)

\* A check that honours the load flag when the slot is already set.
BuildCheckReloads(t) ==
    /\ pc[t] = "b_check"
    /\ pc' = [pc EXCEPT ![t] = IF slot = NoInstance THEN "b_new"
                               ELSE IF flag[t] THEN "b_load" ELSE "b_return"]
    /\ UNCHANGED <<ascii, serial, calls, heap, world, locals, seen>>

\* if _DATASET_LOADER_LABSPHERE2019 is None:
BuildCheck(t) ==
    /\ pc[t] = "b_check"
    /\ pc' = [pc EXCEPT ![t] = IF slot = NoInstance THEN "b_new"
                               ELSE "b_return"]
    /\ UNCHANGED <<ascii, serial, calls, heap, world, locals, seen>>

\* DatasetLoader_Labsphere2019(): a new instance, its content absent.
BuildConstruct(t) ==
    /\ pc[t] = "b_new"
    /\ content' = Append(content, None)
    /\ tmp' = [tmp EXCEPT ![t] = Len(content) + 1]
    /\ trace' = Log(t, "construct")
    /\ pc' = [pc EXCEPT ![t] = "b_store"]
    /\ UNCHANGED <<ascii, serial, calls, slot, handed, world, op, flag, self,
                   synced, new, ret, out, exc, before, seen>>

\* A build that keeps the new instance out of the slot while it is to be
\* loaded.
BuildStoreDefers(t) ==
    /\ pc[t] = "b_store"
    /\ slot' = IF flag[t] THEN slot ELSE tmp[t]
    /\ tmp' = [tmp EXCEPT ![t] = IF flag[t] THEN @ ELSE NoInstance]
    /\ trace' = Log(t, "store")
    /\ pc' = [pc EXCEPT ![t] = IF flag[t] THEN "b_load" ELSE "b_return"]
    /\ UNCHANGED <<ascii, serial, calls, content, handed, world, op, flag, self,
                   synced, new, ret, out, exc, before, seen>>

\* A build that loads the new instance whatever its load argument.
BuildStoreAlwaysLoads(t) ==
    /\ pc[t] = "b_store"
    /\ slot' = tmp[t]
    /\ tmp' = [tmp EXCEPT ![t] = NoInstance]
    /\ trace' = Log(t, "store")
    /\ pc' = [pc EXCEPT ![t] = "b_load"]
    /\ UNCHANGED <<ascii, serial, calls, content, handed, world, op, flag, self,
                   synced, new, ret, out, exc, before, seen>>

\* _DATASET_LOADER_LABSPHERE2019 = <the new instance>;  if load:
BuildStore(t) ==
    /\ pc[t] = "b_store"
    /\ slot' = tmp[t]
    /\ tmp' = [tmp EXCEPT ![t] = NoInstance]
    /\ trace' = Log(t, "store")
    /\ pc' = [pc EXCEPT ![t] = IF flag[t] THEN "b_load" ELSE "b_return"]
    /\ UNCHANGED <<ascii, serial, calls, content, handed, world, op, flag, self,
                   synced, new, ret, out, exc, before, seen>>

\* _DATASET_LOADER_LABSPHERE2019.load(): the global is read again and
\* load() entered on the instance it holds now.
BuildLoad(t) ==
    /\ pc[t] = "b_load"
    /\ self' = [self EXCEPT ![t] = slot]
    /\ before' = [before EXCEPT ![t] = content[slot]]
    /\ trace' = Log(t, "load")
    /\ pc' = [pc EXCEPT ![t] = "l_sync"]
    /\ UNCHANGED <<ascii, serial, calls, heap, world, op, flag, tmp, synced, new,
                   ret, out, exc, seen>>

\* return _DATASET_LOADER_LABSPHERE2019
BuildReturn(t) ==
    /\ pc[t] = "b_return"
    /\ ret' = [ret EXCEPT ![t] = slot]
    /\ out' = [out EXCEPT ![t] = None]
    /\ handed' = handed \cup {slot}
    /\ End(t)
    /\ UNCHANGED <<ascii, serial, calls, slot, content, world, op, exc, seen>>

\* A handler that drops the error of the eager load() and returns.
BuildRaiseSwallows(t) ==
    /\ pc[t] = "b_raise"
    /\ exc' = [exc EXCEPT ![t] = ""]
    /\ ret' = [ret EXCEPT ![t] = slot]
    /\ handed' = handed \cup {slot}
    /\ End(t)
    /\ UNCHANGED <<ascii, serial, calls, slot, content, world, op, out, seen>>

\* A handler that empties the slot before it raises the error again.
BuildRaiseResets(t) ==
    /\ pc[t] = "b_raise"
    /\ slot' = NoInstance
    /\ End(t)
    /\ UNCHANGED <<ascii, serial, calls, content, handed, world, op, ret, out, exc,
                   seen>>

\* The error of the eager load() leaves build_Labsphere2019: there is no
\* handler, the call ends raising it.
BuildRaise(t) ==
    /\ pc[t] = "b_raise"
    /\ End(t)
    /\ UNCHANGED <<ascii, serial, calls, heap, world, op, ret, out, exc, seen>>

(***************************************************************************)
(* DatasetLoader_Labsphere2019.load().                                     *)
(***************************************************************************)

\* A sync() whose failure is ignored: load() goes on to read the file.
LoadSyncIgnoresFailure(t) ==
    /\ pc[t] = "l_sync"
    /\ \E o \in SyncOutcomes(repo, remote) :
          /\ repo' = o.repo
          /\ synced' = [synced EXCEPT ![t] = o.repo]
          /\ trace' = [trace EXCEPT ![t] = @ \o SyncEvents(o)]
    /\ pc' = [pc EXCEPT ![t] = "l_parse"]
    /\ UNCHANGED <<ascii, serial, calls, heap, remote, changed, op, flag, tmp, self,
                   new, ret, out, exc, before, seen>>

\* A load() that removes the repository before it syncs, so that every
\* sync() fetches the archive anew.
LoadSyncRefetches(t) ==
    /\ pc[t] = "l_sync"
    /\ \E o \in SyncOutcomes(Absent, remote) :
          /\ repo' = o.repo
          /\ IF o.ok
             THEN /\ synced' = [synced EXCEPT ![t] = o.repo]
                  /\ pc' = [pc EXCEPT ![t] = "l_parse"]
                  /\ exc' = exc
             ELSE /\ synced' = synced
                  /\ pc' = [pc EXCEPT ![t] = "l_raise"]
                  /\ exc' = [exc EXCEPT ![t] = "SyncError"]
          /\ trace' = [trace EXCEPT ![t] = @ \o SyncEvents(o)]
    /\ UNCHANGED <<ascii, serial, calls, heap, remote, changed, op, flag, tmp, self,
                   new, ret, out, before, seen>>

\* A load() that drops its content when its sync() fails.
LoadSyncClearsOnFailure(t) ==
    /\ pc[t] = "l_sync"
    /\ \E o \in SyncOutcomes(repo, remote) :
          /\ repo' = o.repo
          /\ IF o.ok
             THEN /\ synced' = [synced EXCEPT ![t] = o.repo]
                  /\ pc' = [pc EXCEPT ![t] = "l_parse"]
                  /\ UNCHANGED <<exc, content>>
             ELSE /\ synced' = synced
                  /\ pc' = [pc EXCEPT ![t] = "l_raise"]
                  /\ exc' = [exc EXCEPT ![t] = "SyncError"]
                  /\ content' = [content EXCEPT ![self[t]] = None]
          /\ trace' = [trace EXCEPT ![t] = @ \o SyncEvents(o)]
    /\ UNCHANGED <<ascii, serial, calls, slot, handed, remote, changed, op, flag,
                   tmp, self, new, ret, out, before, seen>>

\* super().sync()
LoadSync(t) ==
    /\ pc[t] = "l_sync"
    /\ \E o \in SyncOutcomes(repo, remote) :
          /\ repo' = o.repo
          /\ IF o.ok
             THEN /\ synced' = [synced EXCEPT ![t] = o.repo]
                  /\ pc' = [pc EXCEPT ![t] = "l_parse"]
                  /\ exc' = exc
             ELSE /\ synced' = synced
                  /\ pc' = [pc EXCEPT ![t] = "l_raise"]
                  /\ exc' = [exc EXCEPT ![t] = "SyncError"]
          /\ trace' = [trace EXCEPT ![t] = @ \o SyncEvents(o)]
    /\ UNCHANGED <<ascii, serial, calls, heap, remote, changed, op, flag, tmp, self,
                   new, ret, out, before, seen>>

\* A load() that clears the content when the file cannot be parsed.
LoadParseClears(t) ==
    /\ pc[t] = "l_parse"
    /\ IF ParseOk(repo)
       THEN /\ new' = [new EXCEPT ![t] = Some(ParseContent(repo))]
            /\ changed' = FALSE
            /\ trace' = Log(t, "parse_ok")
            /\ pc' = [pc EXCEPT ![t] = "l_assign"]
            /\ UNCHANGED <<exc, content>>
       ELSE /\ content' = [content EXCEPT ![self[t]] = None]
            /\ trace' = Log(t, "parse_fail")
            /\ pc' = [pc EXCEPT ![t] = "l_raise"]
            /\ exc' = [exc EXCEPT ![t] = "ParseError"]
            /\ UNCHANGED <<new, changed>>
    /\ UNCHANGED <<ascii, serial, calls, slot, handed, remote, repo, op, flag, tmp,
                   self, synced, ret, out, before, seen>>

\* values = tsplit(np.loadtxt(sd_path, ...)) and the dict(...) built from
\* them: the file is read as it is on local storage now.
LoadParse(t) ==
    /\ pc[t] = "l_parse"
    /\ IF ParseOk(repo)
       THEN /\ new' = [new EXCEPT ![t] = Some(ParseContent(repo))]
            /\ changed' = FALSE
            /\ trace' = Log(t, "parse_ok")
            /\ pc' = [pc EXCEPT ![t] = "l_assign"]
            /\ exc' = exc
       ELSE /\ UNCHANGED <<new, changed>>
            /\ trace' = Log(t, "parse_fail")
            /\ pc' = [pc EXCEPT ![t] = "l_raise"]
            /\ exc' = [exc EXCEPT ![t] = "ParseError"]
    /\ UNCHANGED <<ascii, serial, calls, heap, remote, repo, op, flag, tmp, self,
                   synced, ret, out, before, seen>>

\* A load() that keeps the content it already holds.
LoadAssignCached(t) ==
    /\ pc[t] = "l_assign"
    /\ content' = [content EXCEPT ![self[t]] = IF @ = None THEN new[t] ELSE @]
    /\ trace' = Log(t, "assign")
    /\ pc' = [pc EXCEPT ![t] = "l_return"]
    /\ UNCHANGED <<ascii, serial, calls, slot, handed, world, op, flag, tmp, self,
                   synced, new, ret, out, exc, before, seen>>

\* The dict with no entries, as a load() filling it in place would show it.
EmptyDict == [n \in {} |-> 0]

\* A load() that assigns an empty dict and fills it in a second step.
LoadAssignInPlace(t) ==
    /\ pc[t] = "l_assign"
    /\ IF content[self[t]] # Some(EmptyDict)
       THEN /\ content' = [content EXCEPT ![self[t]] = Some(EmptyDict)]
            /\ UNCHANGED <<trace, pc>>
       ELSE /\ content' = [content EXCEPT ![self[t]] = new[t]]
            /\ trace' = Log(t, "assign")
            /\ pc' = [pc EXCEPT ![t] = "l_return"]
    /\ UNCHANGED <<ascii, serial, calls, slot, handed, world, op, flag, tmp, self,
                   synced, new, ret, out, exc, before, seen>>

\* A load() guarded against stale results: it assigns only when the
\* repository still is as its own sync() left it.
LoadAssignUnlessStale(t) ==
    /\ pc[t] = "l_assign"
    /\ IF repo = synced[t]
       THEN /\ content' = [content EXCEPT ![self[t]] = new[t]]
            /\ trace' = Log(t, "assign")
       ELSE UNCHANGED <<content, trace>>
    /\ pc' = [pc EXCEPT ![t] = "l_return"]
    /\ UNCHANGED <<ascii, serial, calls, slot, handed, world, op, flag, tmp, self,
                   synced, new, ret, out, exc, before, seen>>

\* self._content = <the new dict>
LoadAssign(t) ==
    /\ pc[t] = "l_assign"
    /\ content' = [content EXCEPT ![self[t]] = new[t]]
    /\ trace' = Log(t, "assign")
    /\ pc' = [pc EXCEPT ![t] = "l_return"]
    /\ UNCHANGED <<ascii, serial, calls, slot, handed, world, op, flag, tmp, self,
                   synced, new, ret, out, exc, before, seen>>

\* A load() that returns the content it found when it began.
LoadReturnStale(t) ==
    /\ pc[t] = "l_return"
    /\ out' = [out EXCEPT ![t] = before[t]]
    /\ IF op[t] = "build"
       THEN pc' = [pc EXCEPT ![t] = "b_return"] /\ UNCHANGED frame
       ELSE End(t)
    /\ seen' = <<>>
    /\ UNCHANGED <<ascii, serial, calls, heap, world, op, ret, exc>>

\* return self._content: the attribute is read again.  Called by
\* build_Labsphere2019, the value is dropped and build goes on to return.
LoadReturn(t) ==
    /\ pc[t] = "l_return"
    /\ out' = [out EXCEPT ![t] = content[self[t]]]
    /\ IF op[t] = "build"
       THEN pc' = [pc EXCEPT ![t] = "b_return"] /\ UNCHANGED frame
       ELSE End(t)
    /\ seen' = <<>>
    /\ UNCHANGED <<ascii, serial, calls, heap, world, op, ret, exc>>

\* A handler in load() that drops the content before the error leaves.
LoadRaiseResets(t) ==
    /\ pc[t] = "l_raise"
    /\ content' = [content EXCEPT ![self[t]] = None]
    /\ IF op[t] = "build"
       THEN pc' = [pc EXCEPT ![t] = "b_raise"] /\ UNCHANGED frame
       ELSE End(t)
    /\ seen' = <<>>
    /\ UNCHANGED <<ascii, serial, calls, slot, handed, world, op, ret, out, exc>>

\* The error leaves load(): there is no handler, it reaches the caller.
LoadRaise(t) ==
    /\ pc[t] = "l_raise"
    /\ IF op[t] = "build"
       THEN pc' = [pc EXCEPT ![t] = "b_raise"] /\ UNCHANGED frame
       ELSE End(t)
    /\ seen' = <<>>
    /\ UNCHANGED <<ascii, serial, calls, heap, world, op, ret, out, exc>>

(***************************************************************************)
(* unicode_to_ascii(root_directory).                                       *)
(***************************************************************************)

\* The loader's state, which the utility does not touch.
loader == <<serial, calls, heap, world, pc, locals, seen>>

\* A call of unicode_to_ascii on a tree of text files.
InitAscii ==
    /\ serial = FALSE /\ Start
    /\ tree \in Trees
    /\ orig = tree
    /\ todo = DOMAIN tree
    /\ upc = "walk"
    /\ cur = NoPath
    /\ buf = <<>>

\* The walk yields a file the filter passes over: continue.
SkipFile(f) ==
    /\ upc = "walk" /\ f \in todo
    /\ ~Rewritten(f.name)
    /\ todo' = todo \ {f}
    /\ UNCHANGED <<loader, tree, orig, upc, cur, buf>>

\* The walk yields a file the filter lets through: it is read.  A file
\* that is not UTF-8 raises UnicodeDecodeError, which ends the call.
ReadFile(f) ==
    /\ upc = "walk" /\ f \in todo
    /\ Rewritten(f.name)
    /\ IF Decodes(tree[f])
       THEN /\ cur' = f
            /\ buf' = tree[f]
            /\ upc' = "open"
       ELSE /\ upc' = "raised"
            /\ UNCHANGED <<cur, buf>>
    /\ UNCHANGED <<loader, tree, orig, todo>>

\* codecs.open(filename, "w", ...): the file is truncated.
OpenFile ==
    /\ upc = "open"
    /\ tree' = [tree EXCEPT ![cur] = <<>>]
    /\ upc' = "write"
    /\ UNCHANGED <<loader, orig, todo, cur, buf>>

\* The substitutions, the normalization and file_handle.write(content).
WriteFile ==
    /\ upc = "write"
    /\ tree' = [tree EXCEPT ![cur] = Convert(buf)]
    /\ todo' = todo \ {cur}
    /\ cur' = NoPath
    /\ buf' = <<>>
    /\ upc' = "walk"
    /\ UNCHANGED <<loader, orig>>

\* The walk is over: unicode_to_ascii returns.
WalkEnds ==
    /\ upc = "walk" /\ todo = {}
    /\ upc' = "done"
    /\ UNCHANGED <<loader, tree, orig, todo, cur, buf>>

(***************************************************************************)
(* The specifications.                                                     *)
(***************************************************************************)

\* One step of thread t.
Step(t) ==
    \/ \E f \in BOOLEAN : CallBuild(t, f)
    \/ \E i \in Instances : CallLoad(t, i)
    \/ BuildCheck(t)
    \/ BuildConstruct(t)
    \/ BuildStore(t)
    \/ BuildLoad(t)
    \/ BuildReturn(t)
    \/ BuildRaise(t)
    \/ LoadSync(t)
    \/ LoadParse(t)
    \/ LoadAssign(t)
    \/ LoadReturn(t)
    \/ LoadRaise(t)

Environment ==
    \/ ArchiveChanges
    \/ LocalFilesChange
    \/ \E i \in Instances : Read(i)

Next == (\E t \in Threads : Step(t)) \/ Environment

\* Threads call concurrently.
Spec == Init /\ [][Next]_vars

\* The same steps, the callers serializing their calls (readers and the
\* environment do not wait for them).
SpecSerial == InitSerial /\ [][Next]_vars

\* Both kinds of callers.
SpecAny == InitAny /\ [][Next]_vars

NextAscii ==
    \/ \E f \in Paths : SkipFile(f)
    \/ \E f \in Paths : ReadFile(f)
    \/ OpenFile
    \/ WriteFile
    \/ WalkEnds

\* A call of unicode_to_ascii.
SpecAscii == InitAscii /\ [][NextAscii]_vars

(***************************************************************************)
(* The claims.                                                             *)
(***************************************************************************)

\* The build call of thread t has returned, or has raised.
BuildReturned(t) == op[t] = "build" /\ pc[t] = "idle" /\ exc[t] = ""
BuildRaised(t) == op[t] = "build" /\ pc[t] = "idle" /\ exc[t] # ""

\* The load() of thread t is past its assignment.
Assigned(t) == Has(t, "assign")

\* A content value is absent or the whole mapping of a published revision.
Complete(c) == c = None \/ \E v \in Versions : c = Some(ParseContent(v))

\* C1: callers that race to build_Labsphere2019 while the slot is empty
\* construct exactly one instance, and every call returns that instance.
C1_ConstructOnce ==
    /\ Len(content) <= 1
    /\ \A t, u \in Threads :
          BuildReturned(t) /\ BuildReturned(u) => ret[t] = ret[u]

\* C2: serialized build calls all return the instance the first call
\* created; the slot, once set, is never assigned again; a call that finds
\* the slot set does not enter load() and leaves the content as it is,
\* whatever its load flag.
C2_SameInstance ==
    /\ [](\A t \in Threads : BuildReturned(t) => ret[t] = 1 /\ slot = 1)
    /\ [][slot # NoInstance => slot' = slot]_vars
    /\ [][\A t \in Threads :
            (op[t] = "build" /\ pc[t] # "idle" /\ ~Has(t, "construct")
                /\ slot # NoInstance)
            => /\ content' = content
               /\ pc'[t] \in {pc[t], "b_return", "idle"}]_vars

C2_Witness ==
    \E t \in Threads :
        /\ pc[t] = "b_return" /\ flag[t] /\ ~Has(t, "construct")
        /\ slot = 1 /\ 1 \in handed /\ content[1] = None

\* C3: when load() fails, in sync or in parsing, the content of the loader
\* as the error leaves the call is the content it had when the call began.
C3_FailureNonDestructive ==
    \A t \in Threads :
        pc[t] \in {"l_raise", "b_raise"} => content[self[t]] = before[t]

C3_Witness ==
    \E t \in Threads :
        /\ pc[t] = "l_raise" /\ exc[t] = "ParseError"
        /\ before[t] # None /\ content[self[t]] = before[t]

\* C4: when the eager load() of the constructing build call fails, the new
\* instance stays in the slot with its content absent; a later build call
\* returns the instance of the slot without entering load(), whatever its
\* flag; and content becomes present only in the assignment of a load()
\* called directly or of the eager load() of the constructing call.
C4_FailedEagerLoad ==
    /\ [](\A t \in Threads :
            /\ pc[t] = "b_raise" =>
                  /\ Has(t, "construct")
                  /\ slot # NoInstance /\ slot = self[t]
                  /\ content[slot] = None
            /\ BuildRaised(t) => slot # NoInstance
            /\ (pc[t] = "b_return" /\ ~Has(t, "construct")) =>
                  /\ slot # NoInstance
                  /\ ~Has(t, "load") /\ ~Has(t, "sync_ok")
                  /\ ~Has(t, "sync_fail")
            /\ BuildReturned(t) => ret[t] = slot)
    /\ [][\A i \in Instances :
            (content[i] = None /\ content'[i] # None) =>
               \E t \in Threads :
                  /\ pc[t] = "l_assign" /\ self[t] = i
                  /\ op[t] = "load" \/ Has(t, "construct")]_vars

C4_Witness ==
    \E t, u \in Threads :
        /\ BuildRaised(u)
        /\ pc[t] = "b_return" /\ flag[t] /\ ~Has(t, "load")
        /\ slot # NoInstance /\ content[slot] = None

\* C5: a sample a reader takes of the content of a loader while a load()
\* runs on it is a whole mapping or absent, and it is either the content
\* the loader had when the call began or, once the call has assigned, the
\* mapping the call built.
C5_AtomicReplacement ==
    seen # <<>> =>
        /\ Complete(seen[1])
        /\ \A t \in Threads :
              InLoad(t) =>
                 \/ seen[1] = before[t]
                 \/ Assigned(t) /\ seen[1] = new[t]

C5_Witness ==
    \E t \in Threads :
        /\ pc[t] = "l_return" /\ seen = <<new[t]>>
        /\ before[t] # None /\ before[t] # new[t]

\* C6: load() reads the dataset file, and assigns, only after its sync()
\* has succeeded; when its sync() fails it neither parses nor assigns.
C6_SyncBeforeParse ==
    \A t \in Threads :
        /\ (\/ pc[t] \in {"l_parse", "l_assign", "l_return"}
            \/ Has(t, "parse_ok") \/ Has(t, "parse_fail")
            \/ Has(t, "assign") \/ new[t] # None)
           => /\ Has(t, "sync_ok") /\ ~Has(t, "sync_fail")
              /\ \A e \in {"parse_ok", "parse_fail", "assign"} :
                    Has(t, e) => Pos(t, "sync_ok") < Pos(t, e)
              /\ synced[t] \in Versions
        /\ Has(t, "sync_fail")
           => /\ ~Has(t, "parse_ok") /\ ~Has(t, "parse_fail")
              /\ ~Has(t, "assign") /\ new[t] = None

C6_Witness ==
    \E t \in Threads : pc[t] = "l_raise" /\ Has(t, "sync_fail")

\* C7: a new loader is UNLOADED; the content of a loader changes only in
\* the assignment of a load() whose sync and parse succeeded, which leaves
\* it LOADED with the mapping that call built; no step takes a loader from
\* LOADED to UNLOADED.
C7_StateMachine ==
    [][\A i \in 1..Len(content') :
          IF i \in Instances
          THEN /\ content[i] # None => content'[i] # None
               /\ content'[i] # content[i] =>
                     \E t \in Threads :
                        /\ pc[t] = "l_assign" /\ self[t] = i
                        /\ Has(t, "sync_ok") /\ Has(t, "parse_ok")
                        /\ exc[t] = ""
                        /\ new[t] # None /\ content'[i] = new[t]
          ELSE content'[i] = None]_vars

C7_Witness ==
    \E t \in Threads :
        /\ pc[t] = "l_raise" /\ exc[t] = "SyncError"
        /\ content[self[t]] # None

\* C8: the error of a failed sync is a SyncError and that of a failed
\* parse a ParseError; it leaves load(), and build_Labsphere2019 when the
\* load() was its eager one, as the same error, the call returning
\* nothing; the instance whose eager load() failed is in the slot,
\* unloaded.
C8_ErrorsPropagate ==
    /\ [](\A t \in Threads :
            /\ Has(t, "sync_fail") =>
                  pc[t] \in {"l_raise", "b_raise"} /\ exc[t] = "SyncError"
            /\ Has(t, "parse_fail") =>
                  pc[t] \in {"l_raise", "b_raise"} /\ exc[t] = "ParseError"
            /\ pc[t] = "b_raise" => slot = self[t] /\ content[slot] = None)
    /\ [][\A t \in Threads :
            pc[t] \in {"l_raise", "b_raise"} =>
               /\ exc'[t] = exc[t]
               /\ ret'[t] = NoInstance /\ out'[t] = None
               /\ pc'[t] \in {pc[t],
                              IF pc[t] = "l_raise" /\ op[t] = "build"
                              THEN "b_raise" ELSE "idle"}]_vars

C8_Witness ==
    \E t \in Threads :
        /\ BuildRaised(t) /\ exc[t] = "ParseError"
        /\ slot # NoInstance /\ content[slot] = None

\* C9: after a successful load() the content is the parse of the revision
\* its sync() left in the repository; and when neither the archive nor the
\* local files changed since the file was last read successfully, the
\* mapping a load() builds is the content the loader already holds.
C9_IdempotentLoad ==
    /\ [](\A t \in Threads :
            pc[t] = "l_return" =>
               /\ synced[t] \in Versions
               /\ content[self[t]] = Some(ParseContent(synced[t])))
    /\ [][\A t \in Threads :
            (pc[t] = "l_parse" /\ pc'[t] = "l_assign"
                /\ before[t] # None /\ ~changed)
            => new'[t] = before[t]]_vars

C9_Witness ==
    \E t \in Threads :
        /\ pc[t] = "l_return" /\ before[t] # None
        /\ content[self[t]] # before[t]
        /\ content[self[t]] = Some(ParseContent(synced[t]))

\* C10 as claimed: a load() that returns normally returns the mapping this
\* very call built and assigned, also when another load() runs on the same
\* instance concurrently.
C10_ReturnsOwnMapping ==
    [][\A t \in Threads :
          (pc[t] = "l_return" /\ pc'[t] # "l_return") => out'[t] = new[t]]_vars

\* C10 as amended: a load() that returns normally returns the content of
\* the loader as it is when the call returns, a whole mapping; it is the
\* mapping this very call built and assigned when the callers serialize
\* their calls.
C10_ReturnsContentAtReturn ==
    [][\A t \in Threads :
          (pc[t] = "l_return" /\ pc'[t] # "l_return") =>
             /\ out'[t] = content[self[t]]
             /\ out'[t] # None /\ Complete(out'[t])
             /\ serial => out'[t] = new[t]]_vars

C10_Witness ==
    \E t \in Threads :
        /\ serial /\ op[t] = "load" /\ pc[t] = "idle" /\ exc[t] = ""
        /\ out[t] # None /\ out[t] = content[1]

\* The mapping the specification expects of the reference file: the second
\* column as the domain, the first as the range.
ReferenceAsClaimed ==
    [n \in {SDName} |->
        [name |-> SDName, domain |-> <<400, 500, 600>>,
         range |-> <<98, 99, 100>>]]

\* The mapping with the first column of the reference file as the domain
\* and the second as the range.
ReferenceByColumns ==
    [n \in {SDName} |->
        [name |-> SDName, domain |-> <<98, 99, 100>>,
         range |-> <<400, 500, 600>>]]

\* The load() of thread t has assigned the parse of the reference file
\* (revision "v1": two header rows, then (0.98, 400), (0.99, 500),
\* (1.00, 600)), the callers serializing their calls.
LoadedReference(t) == pc[t] = "l_return" /\ synced[t] = "v1"

SingleEntry(d) ==
    /\ DOMAIN d = {SDName}
    /\ Cardinality(DOMAIN d) = 1
    /\ d[SDName].name = SDName

\* C12: after any successful load(), the first or a repeated one, the
\* content holds exactly one entry, its key "Labsphere SRS-99-020" and the
\* distribution under it of that same name; so does the mapping the call
\* returns.
C12_SingleEntry ==
    /\ \A i \in Instances : content[i] # None => SingleEntry(content[i][1])
    /\ \A t \in Threads : out[t] # None => SingleEntry(out[t][1])

\* A load() on a loader that held content already has assigned.
C12_Witness ==
    \E t \in Threads :
        /\ pc[t] = "l_return" /\ before[t] # None
        /\ content[self[t]] # None /\ SingleEntry(content[self[t]][1])

\* Thread t takes the step that is the sync() of its load().
Syncs(t) == pc[t] = "l_sync" /\ pc'[t] # "l_sync"

\* C13: a sync() on the repository as a successful sync() left it, such as
\* the sync() of the second of two consecutive load() calls with no change
\* in between, succeeds, leaves the repository in the same state and
\* transfers nothing.
C13_IdempotentSync ==
    /\ [](\A t \in Threads :
            (pc[t] = "l_sync" /\ before[t] # None /\ ~changed)
            => repo \in Versions)
    /\ [][\A t \in Threads :
            (Syncs(t) /\ repo \in Versions) =>
               /\ repo' = repo
               /\ pc'[t] = "l_parse"
               /\ synced'[t] = repo
               /\ trace'[t] = Append(trace[t], "sync_ok")]_vars

\* The sync() of a load() that follows a successful load(), nothing having
\* changed in between, has returned without a transfer.
C13_Witness ==
    \E t \in Threads :
        /\ pc[t] = "l_parse" /\ before[t] # None /\ ~changed
        /\ trace[t] = <<"sync_ok">>
        /\ repo = synced[t] /\ before[t] = Some(ParseContent(repo))

\* C14: when the bytes fetched do not match the record's checksum, sync()
\* fails with SyncError and leaves no repository; the load() it is in
\* raises that error, reads and parses nothing and leaves the content of
\* the loader as it was.
C14_ChecksumRejection ==
    /\ [](\A t \in Threads :
            Has(t, "fetch_mismatch") =>
               /\ pc[t] \in {"l_raise", "b_raise"} /\ exc[t] = "SyncError"
               /\ Has(t, "sync_fail") /\ ~Has(t, "sync_ok")
               /\ ~Has(t, "parse_ok") /\ ~Has(t, "parse_fail")
               /\ ~Has(t, "assign") /\ new[t] = None
               /\ content[self[t]] = before[t])
    /\ [][\A t \in Threads :
            (Syncs(t) /\ trace'[t] = trace[t] \o <<"fetch_mismatch", "sync_fail">>)
            => /\ repo' = Absent
               /\ exc'[t] = "SyncError"
               /\ pc'[t] = "l_raise"
               /\ content' = content]_vars

\* A load() on a loaded instance fails on a checksum mismatch.
C14_Witness ==
    \E t \in Threads :
        /\ pc[t] = "l_raise" /\ Has(t, "fetch_mismatch")
        /\ before[t] # None /\ content[self[t]] = before[t]
        /\ repo = Absent

\* C15: nothing in load() orders the calls that run on one instance: the
\* assignment of a call installs the mapping that call built, whatever
\* another call has synced, parsed or assigned on the instance meanwhile.
\* So when the archive changes between the sync() steps of two concurrent
\* calls, the call that synced the older revision can assign last, and the
\* content is then the older parse (C15_Witness).
C15_StaleOverwrite ==
    [][\A t \in Threads :
          (pc[t] = "l_assign" /\ pc'[t] # "l_assign") =>
             /\ pc'[t] = "l_return"
             /\ new[t] # None
             /\ content'[self[t]] = new[t]
             /\ \A u \in Threads \ {t} : pc'[u] = pc[u]]_vars

\* Two load() calls run on one instance; t synced and parsed revision "v1",
\* the archive then changed to "v2", which u synced, parsed and assigned;
\* t has assigned after u, and the content is the parse of "v1" while the
\* repository and the remote hold "v2".
C15_Witness ==
    \E t, u \in Threads :
        /\ t # u /\ self[t] # NoInstance /\ self[t] = self[u]
        /\ pc[t] = "l_return" /\ pc[u] = "l_return"
        /\ Has(t, "assign") /\ Has(u, "assign")
        /\ synced[t] = "v1" /\ synced[u] = "v2"
        /\ remote = "v2" /\ repo = "v2"
        /\ new[u] = Some(ParseContent("v2"))
        /\ new[t] = Some(ParseContent("v1"))
        /\ content[self[t]] = new[t] /\ content[self[t]] # new[u]

\* How many times event e is in the trace of thread t.
Count(t, e) == Cardinality({k \in 1..Len(trace[t]) : trace[t][k] = e})

\* The events of a sync() or of reading the dataset file.
LoadEvents ==
    {"load", "sync_ok", "sync_fail", "fetch_intact", "fetch_mismatch",
     "fetch_error", "parse_ok", "parse_fail", "assign"}

\* C16: a build_Labsphere2019(load=False) call that finds the slot empty
\* constructs the instance and stores it in the slot without entering
\* load() (no sync, no parse), and returns it with its content absent; a
\* build_Labsphere2019(load=True) call that finds the slot empty has
\* entered load() on the new instance exactly once when it returns or
\* raises.
C16_LazyConstruction ==
    \A t \in Threads :
        (pc[t] \in {"b_return", "b_raise"} /\ Has(t, "construct")) =>
            /\ Count(t, "construct") = 1 /\ Count(t, "store") = 1
            /\ slot # NoInstance /\ slot = Len(content)
            /\ IF flag[t]
               THEN /\ Count(t, "load") = 1
                    /\ self[t] = slot
                    /\ Count(t, "sync_ok") + Count(t, "sync_fail") = 1
                    /\ pc[t] = "b_return" => content[slot] = new[t]
               ELSE /\ pc[t] = "b_return"
                    /\ \A e \in LoadEvents : ~Has(t, e)
                    /\ trace[t] = <<"construct", "store">>
                    /\ content[slot] = None
                    /\ synced[t] = "" /\ new[t] = None /\ exc[t] = ""

\* A build_Labsphere2019(load=False) call on the empty slot is about to
\* return the new, unloaded instance.
C16_Witness ==
    \E t \in Threads :
        /\ pc[t] = "b_return" /\ ~flag[t] /\ Has(t, "construct")
        /\ slot = 1 /\ content[1] = None /\ handed = {}

\* A build_Labsphere2019(load=True) call on the empty slot is about to
\* return after its one load().
C16_WitnessEager ==
    \E t \in Threads :
        /\ pc[t] = "b_return" /\ flag[t] /\ Has(t, "construct")
        /\ Count(t, "load") = 1 /\ content[slot] # None

\* A sequence of numbers is strictly increasing.
StrictlyIncreasing(q) == \A k \in 1..(Len(q) - 1) : q[k] < q[k + 1]

\* C17: load() fails with a parse error rather than assign when the
\* wavelengths of the dataset file are not strictly increasing, or when
\* wavelengths and values differ in number; so every spectral distribution
\* stored in the content of a loader has a strictly increasing domain of
\* the length of its range.
C17_ValidatedDomain ==
    \A i \in Instances :
        content[i] # None =>
            \A n \in DOMAIN content[i][1] :
                /\ StrictlyIncreasing(content[i][1][n].domain)
                /\ Len(content[i][1][n].domain) = Len(content[i][1][n].range)

\* C18: build_Labsphere2019 stores the new instance in the slot before it
\* enters the eager load(): the slot is set all the while that load() runs.
\* A build call that finds the slot set goes on to return the instance of
\* the slot, without loading and whatever the content of the instance; so
\* a call concurrent with the first call's eager load() can return the
\* instance with its content absent, no load having failed (C18_Witness).
C18_StoredBeforeLoad ==
    /\ [](\A t \in Threads :
            /\ (op[t] = "build" /\ (pc[t] = "b_load" \/ InLoad(t))) =>
                  /\ slot # NoInstance
                  /\ Has(t, "construct") /\ Has(t, "store")
                  /\ Pos(t, "construct") < Pos(t, "store")
                  /\ Has(t, "load") => Pos(t, "store") < Pos(t, "load")
            /\ (pc[t] = "b_return" /\ ~Has(t, "construct")) =>
                  slot # NoInstance /\ trace[t] = <<>>)
    /\ [][\A t \in Threads :
            (pc[t] = "b_return" /\ pc'[t] # "b_return") =>
               /\ pc'[t] = "idle" /\ ret'[t] = slot /\ exc'[t] = ""
               /\ content' = content]_vars

\* Thread t is in the eager load() of the build call that constructed the
\* only instance, nothing has failed, and the build call of thread u has
\* returned that instance, its content absent.
C18_Witness ==
    \E t, u \in Threads :
        /\ t # u /\ Len(content) = 1 /\ slot = 1
        /\ op[t] = "build" /\ flag[t] /\ Has(t, "construct")
        /\ pc[t] \in {"l_sync", "l_parse", "l_assign"} /\ self[t] = 1
        /\ exc[t] = "" /\ ~Has(t, "sync_fail") /\ ~Has(t, "parse_fail")
        /\ BuildReturned(u) /\ ret[u] = 1
        /\ content[1] = None

\* The extensions the docstring of unicode_to_ascii names.
Documented(name) ==
    \/ EndsWith(name, DotPy) \/ EndsWith(name, DotBib)
    \/ EndsWith(name, DotRst)

\* C19: unicode_to_ascii rewrites only files whose names end in .py, .bib
\* or .rst: when the call has returned, every other file of the tree has
\* the text it had when the call began.
C19_OnlyPyBibRst ==
    /\ DOMAIN tree = DOMAIN orig
    /\ upc = "done" =>
          \A f \in DOMAIN tree : ~Documented(f.name) => tree[f] = orig[f]

====
